---- MODULE Spec2Model ----
(***************************************************************************)
(* Model of the ledger posting engine (src/src/ledger_engine.py).          *)
(*                                                                         *)
(* The committed store is the four tables accounts, transactions,          *)
(* journal_entries and audit_log.  Every caller runs its operation in its  *)
(* own SQLAlchemy session: what a session has added stays in the caller's  *)
(* local state until session.commit() and is dropped by                    *)
(* session.rollback().  Reads see the committed store at the instant of    *)
(* the read (read-committed).                                              *)
(*                                                                         *)
(* Amounts are Decimals; the model counts them in thousandths (10 = 0.01). *)
(* A UUID is modelled by the smallest identifier that is not in use.        *)
(***************************************************************************)
EXTENDS Integers, Sequences, FiniteSets, Bags, TLC

VARIABLES accounts, transactions, journal_entries, audit_log, now, pc, local, last

vars == <<accounts, transactions, journal_entries, audit_log, now, pc, local, last>>

store == <<accounts, transactions, journal_entries, audit_log>>

(***************************************************************************)
(* Bounds of the model.                                                    *)
(***************************************************************************)
Procs == {"p1", "p2"}

MaxTxns == 3

MaxClock == 1

TicksPerDay == 1

(***************************************************************************)
(* Enumerations and null values.                                           *)
(***************************************************************************)
AccountTypes == {"ASSET", "LIABILITY", "EQUITY", "REVENUE", "EXPENSE"}

EntryTypes == {"DEBIT", "CREDIT"}

TransactionStatuses == {"PENDING", "POSTED", "REVERSED", "CANCELLED"}

NoneId == 0

NoneText == ""

Day(t) == t \div TicksPerDay

(***************************************************************************)
(* Inputs the callers may supply.                                          *)
(***************************************************************************)
AccountDefinition(code, name, type, parent) ==
    [account_code |-> code, account_name |-> name, account_type |-> type,
     parent_account_code |-> parent]

AccountDefs ==
    { AccountDefinition("1100", "Cash", "ASSET", NoneText),
      AccountDefinition("4100", "Sales Revenue", "REVENUE", NoneText),
      AccountDefinition("1110", "Petty Cash", "ASSET", "1100"),
      AccountDefinition("2100", "Accounts Payable", "LIABILITY", "2000"),
      AccountDefinition("3000", "Equity", "CAPITAL", NoneText) }

JournalEntryInput(code, type, amount) ==
    [account_code |-> code, entry_type |-> type, amount |-> amount]

TransactionInput(event, descr, date, entries) ==
    [business_event_type |-> event, description |-> descr,
     transaction_date |-> date, entries |-> entries]

InputEntryLists ==
    { << >>,
      << JournalEntryInput("1100", "DEBIT", 10), JournalEntryInput("4100", "CREDIT", 10) >>,
      << JournalEntryInput("1100", "DEBIT", 10), JournalEntryInput("4100", "CREDIT", 4) >>,
      << JournalEntryInput("1100", "DEBIT", 4), JournalEntryInput("1110", "DEBIT", 4),
         JournalEntryInput("4100", "CREDIT", 8) >>,
      << JournalEntryInput("1100", "DEBIT", 10), JournalEntryInput("9999", "CREDIT", 10) >>,
      << JournalEntryInput("9999", "DEBIT", 10), JournalEntryInput("4100", "CREDIT", 4) >>,
      << JournalEntryInput("1100", "DEBIT", -10), JournalEntryInput("4100", "CREDIT", -10) >> }

TxnInputs ==
    { TransactionInput(<<"SALE">>, "Test sale", 0, el) : el \in InputEntryLists }

\* The inputs of the callers that run concurrently.
ConcurrentEntryLists ==
    { << JournalEntryInput("1100", "DEBIT", 10), JournalEntryInput("4100", "CREDIT", 10) >>,
      << JournalEntryInput("1100", "DEBIT", 10), JournalEntryInput("4100", "CREDIT", 4) >>,
      << JournalEntryInput("1100", "DEBIT", 10), JournalEntryInput("9999", "CREDIT", 10) >> }

ConcurrentInputs ==
    { TransactionInput(<<"SALE">>, "Test sale", 0, el) : el \in ConcurrentEntryLists }

ConcurrentAccountDefs ==
    { AccountDefinition("1100", "Cash", "ASSET", NoneText),
      AccountDefinition("4100", "Sales Revenue", "REVENUE", NoneText) }

ReversalReasons == {"Test"}

(***************************************************************************)
(* Decimal arithmetic.                                                     *)
(***************************************************************************)
RECURSIVE SumAmounts(_, _)
SumAmounts(entries, type) ==
    IF entries = << >> THEN 0
    ELSE (IF Head(entries).entry_type = type THEN Head(entries).amount ELSE 0)
         + SumAmounts(Tail(entries), type)

RECURSIVE SumRows(_, _)
SumRows(rows, type) ==
    IF rows = {} THEN 0
    ELSE LET r == CHOOSE x \in rows : TRUE
         IN  (IF r.entry_type = type THEN r.amount ELSE 0) + SumRows(rows \ {r}, type)

\* The amount column is Numeric(20, 2): a value is kept with two decimal
\* places, rounded half up (amounts are non-negative when they are stored).
Numeric_20_2(amount) == ((amount + 5) \div 10) * 10

(***************************************************************************)
(* Input validation.                                                       *)
(***************************************************************************)
AccountDefinition_validate(def) ==
    IF def.account_code = NoneText THEN "AccountCodeRequired"
    ELSE IF def.account_name = NoneText THEN "AccountNameRequired"
    ELSE IF def.account_type \notin AccountTypes THEN "InvalidAccountType"
    ELSE "ok"

JournalEntryInput_validate(e) ==
    IF e.account_code = NoneText THEN "AccountCodeRequired"
    ELSE IF e.entry_type \notin EntryTypes THEN "InvalidEntryType"
    ELSE IF e.amount < 0 THEN "NegativeAmount"
    ELSE "ok"

RECURSIVE FirstEntryError(_)
FirstEntryError(entries) ==
    IF entries = << >> THEN "ok"
    ELSE IF JournalEntryInput_validate(Head(entries)) # "ok"
         THEN JournalEntryInput_validate(Head(entries))
         ELSE FirstEntryError(Tail(entries))

\* validate() without the comparison of the two totals
TransactionInput_validate_NoBalanceCheck(input) ==
    IF input.business_event_type = << >> THEN "EventTypeRequired"
    ELSE IF input.description = NoneText THEN "DescriptionRequired"
    ELSE IF Len(input.entries) = 0 THEN "EmptyEntrySet"
    ELSE IF FirstEntryError(input.entries) # "ok" THEN FirstEntryError(input.entries)
    ELSE "ok"

\* validate() without the check that there is at least one entry
TransactionInput_validate_NoEmptyCheck(input) ==
    IF input.business_event_type = << >> THEN "EventTypeRequired"
    ELSE IF input.description = NoneText THEN "DescriptionRequired"
    ELSE IF FirstEntryError(input.entries) # "ok" THEN FirstEntryError(input.entries)
    ELSE IF SumAmounts(input.entries, "DEBIT") # SumAmounts(input.entries, "CREDIT")
         THEN "Unbalanced"
    ELSE "ok"

TransactionInput_validate(input) ==
    IF input.business_event_type = << >> THEN "EventTypeRequired"
    ELSE IF input.description = NoneText THEN "DescriptionRequired"
    ELSE IF Len(input.entries) = 0 THEN "EmptyEntrySet"
    ELSE IF FirstEntryError(input.entries) # "ok" THEN FirstEntryError(input.entries)
    ELSE IF SumAmounts(input.entries, "DEBIT") # SumAmounts(input.entries, "CREDIT")
         THEN "Unbalanced"
    ELSE "ok"

(***************************************************************************)
(* Queries on the committed store.                                         *)
(***************************************************************************)
AccountByCode(code) == { a \in accounts : a.account_code = code }

TransactionById(tid) == { t \in transactions : t.transaction_id = tid }

EntriesOf(tid) == { e \in journal_entries : e.transaction_id = tid }

\* order_by(JournalEntry.entry_number)
RECURSIVE OrderByEntryNumber(_)
OrderByEntryNumber(rows) ==
    IF rows = {} THEN << >>
    ELSE LET r == CHOOSE x \in rows : \A y \in rows : x.entry_number <= y.entry_number
         IN  <<r>> \o OrderByEntryNumber(rows \ {r})

(***************************************************************************)
(* Session-local state of a caller.                                        *)
(***************************************************************************)
NoInput == TransactionInput(<< >>, NoneText, 0, << >>)

IdleLocal ==
    [input |-> NoInput, caller |-> "none", txn |-> << >>, entries |-> << >>,
     account |-> << >>, orig |-> NoneId, reason |-> NoneText, reversal_id |-> NoneId]

Ok(value) == [kind |-> "ok", value |-> value]

Err(kind) == [kind |-> kind, value |-> NoneId]

NoResult == [kind |-> "none", value |-> NoneId]

PendingTxnIds == { local[p].txn[1].transaction_id : p \in { q \in Procs : local[q].txn # << >> } }

PendingAccountIds == { local[p].account[1].account_id : p \in { q \in Procs : local[q].account # << >> } }

\* uuid.uuid4(): an identifier no row and no open session holds
NewTransactionId ==
    CHOOSE i \in 1..(MaxTxns + Cardinality(Procs)) :
        /\ i \notin { t.transaction_id : t \in transactions } \cup PendingTxnIds
        /\ \A j \in 1..(i - 1) : j \in { t.transaction_id : t \in transactions } \cup PendingTxnIds

\* The account codes of the inputs, in a fixed order.
AccountCodes == <<"1100", "4100", "1110", "2100", "3000">>

\* uuid.uuid4() for an account: the smallest identifier of the code's own
\* series (index of the code, plus multiples of the number of codes) that no
\* row and no open session holds.
NewAccountId(account_code) ==
    LET index == CHOOSE i \in 1..Len(AccountCodes) : AccountCodes[i] = account_code
        used  == { a.account_id : a \in accounts } \cup PendingAccountIds
        free  == { k \in 0..(Cardinality(accounts) + Cardinality(Procs)) :
                     index + Len(AccountCodes) * k \notin used }
    IN  index + Len(AccountCodes) * (CHOOSE k \in free : \A m \in free : k <= m)

(***************************************************************************)
(* Helpers of the engine.                                                  *)
(***************************************************************************)
\* SELECT COUNT(*) FROM transactions, without the pattern of today's numbers
_generate_transaction_number_AllDays == <<Day(now), Cardinality(transactions) + 1>>

\* SELECT COUNT(*) FROM transactions WHERE transaction_number LIKE '<today>-%'
_generate_transaction_number ==
    LET today == Day(now)
        count == Cardinality({ t \in transactions : t.transaction_number[1] = today })
    IN  <<today, count + 1>>

\* str() of a Decimal that carries three decimal places: 10 thousandths is
\* "0.010".  This one prints two decimal places only.
Decimal_str_TwoPlaces(amount) ==
    ToString(amount \div 1000) \o "." \o ToString((amount % 1000) \div 100)
        \o ToString((amount % 100) \div 10)

Decimal_str(amount) ==
    ToString(amount \div 1000) \o "." \o ToString((amount % 1000) \div 100)
        \o ToString((amount % 100) \div 10) \o ToString(amount % 10)

\* json.dumps of a string (the strings of the model need no escaping)
json_string(s) == "\"" \o s \o "\""

\* json.dumps of a list whose items are already serialised
RECURSIVE json_list_items(_)
json_list_items(items) ==
    IF items = << >> THEN ""
    ELSE IF Len(items) = 1 THEN Head(items)
    ELSE Head(items) \o ", " \o json_list_items(Tail(items))

json_list(items) == "[" \o json_list_items(items) \o "]"

\* hashlib.sha256(...).hexdigest(): a digest stands for the text it was
\* computed from, two texts have the same digest only if they are equal.
sha256_hexdigest(text) == "sha256:" \o text

\* json.dumps(hash_input, sort_keys=True): the keys in sorted order, the
\* transaction id as its text, the date as its isoformat text
_calculate_transaction_hash(transaction_id, transaction_date, entries) ==
    LET entry_json(e) ==
            "{\"account\": " \o json_string(e.account_code)
                \o ", \"amount\": " \o json_string(Decimal_str(e.amount))
                \o ", \"type\": " \o json_string(e.entry_type) \o "}"
        hash_str ==
            "{\"entries\": "
                \o json_list([i \in 1..Len(entries) |-> entry_json(entries[i])])
                \o ", \"transaction_date\": " \o json_string(ToString(transaction_date))
                \o ", \"transaction_id\": " \o json_string(ToString(transaction_id)) \o "}"
    IN  sha256_hexdigest(hash_str)

_calculate_entry_hash(entry_id, transaction_id, account_code, entry_type, amount) ==
    [entry_id |-> entry_id, transaction_id |-> transaction_id, account |-> account_code,
     type |-> entry_type, amount |-> amount]

\* An audit record that does not carry the transaction id it is given
_log_audit_NoTransactionId(event_type, severity, action, transaction_id, entity_id, entry_count) ==
    [event_type |-> event_type, severity |-> severity, action |-> action,
     transaction_id |-> NoneId, entity_id |-> entity_id,
     entry_count |-> entry_count]

\* entry_count is the one metadata value the model keeps (0 when absent)
_log_audit(event_type, severity, action, transaction_id, entity_id, entry_count) ==
    [event_type |-> event_type, severity |-> severity, action |-> action,
     transaction_id |-> transaction_id, entity_id |-> entity_id,
     entry_count |-> entry_count]

(***************************************************************************)
(* Balances and the integrity check, as functions of the committed store.  *)
(***************************************************************************)
NoDate == -1

\* The balance query without the filter on the status of the transaction
Balance_AnyStatus(account_code, as_of_date, txns, rows) ==
    LET account == CHOOSE a \in AccountByCode(account_code) : TRUE
        entries == { e \in rows :
                       /\ e.account_code = account_code
                       /\ \E t \in txns :
                            /\ t.transaction_id = e.transaction_id
                            /\ as_of_date # NoDate => t.posting_date <= as_of_date }
        total_debits == SumRows(entries, "DEBIT")
        total_credits == SumRows(entries, "CREDIT")
    IN  IF account.account_type \in {"ASSET", "EXPENSE"}
        THEN total_debits - total_credits
        ELSE total_credits - total_debits

\* The balance query of get_account_balance over the tables txns and rows
Balance(account_code, as_of_date, txns, rows) ==
    LET account == CHOOSE a \in AccountByCode(account_code) : TRUE
        entries == { e \in rows :
                       /\ e.account_code = account_code
                       /\ \E t \in txns :
                            /\ t.transaction_id = e.transaction_id
                            /\ t.status = "POSTED"
                            /\ as_of_date # NoDate => t.posting_date <= as_of_date }
        total_debits == SumRows(entries, "DEBIT")
        total_credits == SumRows(entries, "CREDIT")
    IN  IF account.account_type \in {"ASSET", "EXPENSE"}
        THEN total_debits - total_credits
        ELSE total_credits - total_debits

get_account_balance(account_code, as_of_date) ==
    Balance(account_code, as_of_date, transactions, journal_entries)

verify_double_entry_integrity(transaction_id) ==
    LET checked == { t \in transactions :
                        /\ t.status = "POSTED"
                        /\ transaction_id # NoneId => t.transaction_id = transaction_id }
        errors == { t.transaction_number : t \in
                      { u \in checked :
                          SumRows(EntriesOf(u.transaction_id), "DEBIT")
                            # SumRows(EntriesOf(u.transaction_id), "CREDIT") } }
    IN  [is_valid |-> errors = {}, errors |-> errors]

\* ORDER BY account_code: the codes of the inputs in the order of the column
AccountCodeOrder == <<"1100", "1110", "2100", "3000", "4100">>

CodeRank(account_code) ==
    CHOOSE i \in 1..Len(AccountCodeOrder) : AccountCodeOrder[i] = account_code

RECURSIVE OrderByAccountCode(_)
OrderByAccountCode(rows) ==
    IF rows = {} THEN << >>
    ELSE LET r == CHOOSE x \in rows :
                      \A y \in rows : CodeRank(x.account_code) <= CodeRank(y.account_code)
         IN  <<r>> \o OrderByAccountCode(rows \ {r})

TrialBalanceRow(account, as_of_date) ==
    [account_code |-> account.account_code,
     account_name |-> account.account_name,
     account_type |-> account.account_type,
     balance |-> get_account_balance(account.account_code, as_of_date)]

\* The trial balance without the filter is_active == True
get_trial_balance_AllAccounts(as_of_date) ==
    LET ordered == OrderByAccountCode(accounts)
    IN  [i \in 1..Len(ordered) |-> TrialBalanceRow(ordered[i], as_of_date)]

get_trial_balance(as_of_date) ==
    LET ordered == OrderByAccountCode({ a \in accounts : a.is_active })
    IN  [i \in 1..Len(ordered) |-> TrialBalanceRow(ordered[i], as_of_date)]

(***************************************************************************)
(* Initial state: the tables as create_all leaves them.                    *)
(***************************************************************************)
Init ==
    /\ accounts = {}
    /\ transactions = {}
    /\ journal_entries = {}
    /\ audit_log = EmptyBag
    /\ now = 0
    /\ pc = [p \in Procs |-> "idle"]
    /\ local = [p \in Procs |-> IdleLocal]
    /\ last = NoResult

\* The call of p ends: its session is closed, its outcome is returned or raised.
Return(p, outcome) ==
    /\ pc' = [pc EXCEPT ![p] = "idle"]
    /\ local' = [local EXCEPT ![p] = IdleLocal]
    /\ last' = outcome

\* Transactions that are committed or that an open call may still commit.
InFlight == { p \in Procs : pc[p] \in {"rev_call", "post_entries", "post_commit"} }

HasCapacity == Cardinality(transactions) + Cardinality(InFlight) < MaxTxns

(***************************************************************************)
(* create_account                                                          *)
(***************************************************************************)
\* validate(), the duplicate check, the parent lookup and session.add(account)
\* create_account that gives every account level 1, with or without a parent
CreateAccount_LevelOne(p, defs) ==
    /\ pc[p] = "idle"
    /\ \E def \in defs :
        LET err    == AccountDefinition_validate(def)
            parent == AccountByCode(def.parent_account_code)
            level  == 1
            account == [account_id |-> NewAccountId(def.account_code),
                        account_code |-> def.account_code,
                        account_name |-> def.account_name,
                        account_type |-> def.account_type,
                        parent_account_id |->
                            IF def.parent_account_code = NoneText THEN NoneId
                            ELSE (CHOOSE a \in parent : TRUE).account_id,
                        level |-> level,
                        is_active |-> TRUE]
        IN  IF err # "ok" THEN Return(p, Err(err))
            ELSE IF AccountByCode(def.account_code) # {} THEN Return(p, Err("DuplicateAccount"))
            ELSE IF def.parent_account_code # NoneText /\ parent = {}
                 THEN Return(p, Err("ParentNotFound"))
            ELSE /\ pc' = [pc EXCEPT ![p] = "create_commit"]
                 /\ local' = [local EXCEPT ![p].account = <<account>>]
                 /\ last' = NoResult
    /\ UNCHANGED <<store, now>>

CreateAccount(p, defs) ==
    /\ pc[p] = "idle"
    /\ \E def \in defs :
        LET err    == AccountDefinition_validate(def)
            parent == AccountByCode(def.parent_account_code)
            level  == IF def.parent_account_code = NoneText THEN 1
                      ELSE (CHOOSE a \in parent : TRUE).level + 1
            account == [account_id |-> NewAccountId(def.account_code),
                        account_code |-> def.account_code,
                        account_name |-> def.account_name,
                        account_type |-> def.account_type,
                        parent_account_id |->
                            IF def.parent_account_code = NoneText THEN NoneId
                            ELSE (CHOOSE a \in parent : TRUE).account_id,
                        level |-> level,
                        is_active |-> TRUE]
        IN  IF err # "ok" THEN Return(p, Err(err))
            ELSE IF AccountByCode(def.account_code) # {} THEN Return(p, Err("DuplicateAccount"))
            ELSE IF def.parent_account_code # NoneText /\ parent = {}
                 THEN Return(p, Err("ParentNotFound"))
            ELSE /\ pc' = [pc EXCEPT ![p] = "create_commit"]
                 /\ local' = [local EXCEPT ![p].account = <<account>>]
                 /\ last' = NoResult
    /\ UNCHANGED <<store, now>>

\* The commit of create_account on a table without the unique constraint
CreateCommit_NoUniqueConstraint(p) ==
    /\ pc[p] = "create_commit"
    /\ LET account == local[p].account[1]
       IN  /\ accounts' = accounts \cup {account}
           /\ audit_log' = audit_log (+) SetToBag({
                  _log_audit("ACCOUNT_CREATED", "INFO", "CREATE_ACCOUNT",
                             NoneId, account.account_id, 0)})
           /\ Return(p, Ok(account.account_id))
           /\ UNCHANGED <<transactions, journal_entries>>
    /\ UNCHANGED now

\* session.commit() of create_account: the account row and its audit record
\* The commit of create_account with the audit record written in a session of
\* its own, which the rollback of the failed commit does not undo
CreateCommit_AuditOnFailure(p) ==
    /\ pc[p] = "create_commit"
    /\ LET account == local[p].account[1]
       IN  IF AccountByCode(account.account_code) # {}
           THEN /\ Return(p, Err("IntegrityError"))
                /\ audit_log' = audit_log (+) SetToBag({
                       _log_audit("ACCOUNT_CREATED", "INFO", "CREATE_ACCOUNT",
                                  NoneId, account.account_id, 0)})
                /\ UNCHANGED <<accounts, transactions, journal_entries>>
           ELSE /\ accounts' = accounts \cup {account}
                /\ audit_log' = audit_log (+) SetToBag({
                       _log_audit("ACCOUNT_CREATED", "INFO", "CREATE_ACCOUNT",
                                  NoneId, account.account_id, 0)})
                /\ Return(p, Ok(account.account_id))
                /\ UNCHANGED <<transactions, journal_entries>>
    /\ UNCHANGED now

CreateCommit(p) ==
    /\ pc[p] = "create_commit"
    /\ LET account == local[p].account[1]
       IN  IF AccountByCode(account.account_code) # {}
           THEN /\ Return(p, Err("IntegrityError"))
                /\ UNCHANGED store
           ELSE /\ accounts' = accounts \cup {account}
                /\ audit_log' = audit_log (+) SetToBag({
                       _log_audit("ACCOUNT_CREATED", "INFO", "CREATE_ACCOUNT",
                                  NoneId, account.account_id, 0)})
                /\ Return(p, Ok(account.account_id))
                /\ UNCHANGED <<transactions, journal_entries>>
    /\ UNCHANGED now

(***************************************************************************)
(* post_transaction                                                        *)
(***************************************************************************)
\* validate(), then in a new session: the id, the number, the posting date,
\* the hash and session.add(transaction)
StartPost(p, input, caller) ==
    LET err == TransactionInput_validate(input)
        transaction_id == NewTransactionId
        transaction ==
            [transaction_id |-> transaction_id,
             transaction_number |-> _generate_transaction_number,
             transaction_date |-> input.transaction_date,
             posting_date |-> now,
             business_event_type |-> input.business_event_type,
             description |-> input.description,
             status |-> "POSTED",
             is_reversal |-> FALSE,
             reverses_transaction_id |-> NoneId,
             reversed_by_transaction_id |-> NoneId,
             reversal_reason |-> NoneText,
             transaction_hash |->
                 _calculate_transaction_hash(transaction_id, input.transaction_date,
                                             input.entries)]
    IN  IF err # "ok" THEN Return(p, Err(err))
        ELSE /\ pc' = [pc EXCEPT ![p] = "post_entries"]
             /\ local' = [local EXCEPT ![p].input = input, ![p].caller = caller,
                                       ![p].txn = <<transaction>>]
             /\ last' = NoResult

Post(p, inputs) ==
    /\ pc[p] = "idle"
    /\ \E input \in inputs :
        /\ TransactionInput_validate(input) = "ok" => HasCapacity
        /\ StartPost(p, input, "none")
    /\ UNCHANGED <<store, now>>

\* The loop with the account lookup checked for the first entry only: a later
\* entry on an unknown account is added without an account id.
PostEntries_FirstAccountOnly(p) ==
    /\ pc[p] = "post_entries"
    /\ LET input == local[p].input
           transaction == local[p].txn[1]
           row(i) ==
               LET e == input.entries[i]
                   found == AccountByCode(e.account_code)
                   entry_id == <<transaction.transaction_id, i>>
               IN  [entry_id |-> entry_id,
                    transaction_id |-> transaction.transaction_id,
                    entry_number |-> i,
                    account_id |-> IF found = {} THEN NoneId
                                   ELSE (CHOOSE a \in found : TRUE).account_id,
                    account_code |-> e.account_code,
                    entry_type |-> e.entry_type,
                    amount |-> e.amount,
                    posting_date |-> transaction.posting_date,
                    entry_hash |-> _calculate_entry_hash(entry_id,
                                       transaction.transaction_id, e.account_code,
                                       e.entry_type, e.amount)]
       IN  IF AccountByCode(input.entries[1].account_code) = {}
           THEN Return(p, Err("AccountNotFound"))
           ELSE /\ pc' = [pc EXCEPT ![p] = "post_commit"]
                /\ local' = [local EXCEPT ![p].entries =
                                 [i \in 1..Len(input.entries) |-> row(i)]]
                /\ last' = NoResult
    /\ UNCHANGED <<store, now>>

\* The loop over the entries: each account is looked up by code and a
\* journal entry is added to the session; the first unknown account raises.
\* Accounts are never removed, so the lookups of one loop are taken together.
\* The loop with enumerate(...) left at its default start of 0
PostEntries_NumberFromZero(p) ==
    /\ pc[p] = "post_entries"
    /\ LET input == local[p].input
           transaction == local[p].txn[1]
           missing == { i \in 1..Len(input.entries) :
                            AccountByCode(input.entries[i].account_code) = {} }
           row(i) ==
               LET e == input.entries[i]
                   account == CHOOSE a \in AccountByCode(e.account_code) : TRUE
                   entry_id == <<transaction.transaction_id, i>>
               IN  [entry_id |-> entry_id,
                    transaction_id |-> transaction.transaction_id,
                    entry_number |-> i - 1,
                    account_id |-> account.account_id,
                    account_code |-> e.account_code,
                    entry_type |-> e.entry_type,
                    amount |-> e.amount,
                    posting_date |-> transaction.posting_date,
                    entry_hash |-> _calculate_entry_hash(entry_id,
                                       transaction.transaction_id, e.account_code,
                                       e.entry_type, e.amount)]
       IN  IF missing # {} THEN Return(p, Err("AccountNotFound"))
           ELSE /\ pc' = [pc EXCEPT ![p] = "post_commit"]
                /\ local' = [local EXCEPT ![p].entries =
                                 [i \in 1..Len(input.entries) |-> row(i)]]
                /\ last' = NoResult
    /\ UNCHANGED <<store, now>>

PostEntries(p) ==
    /\ pc[p] = "post_entries"
    /\ LET input == local[p].input
           transaction == local[p].txn[1]
           missing == { i \in 1..Len(input.entries) :
                            AccountByCode(input.entries[i].account_code) = {} }
           row(i) ==
               LET e == input.entries[i]
                   account == CHOOSE a \in AccountByCode(e.account_code) : TRUE
                   entry_id == <<transaction.transaction_id, i>>
               IN  [entry_id |-> entry_id,
                    transaction_id |-> transaction.transaction_id,
                    entry_number |-> i,
                    account_id |-> account.account_id,
                    account_code |-> e.account_code,
                    entry_type |-> e.entry_type,
                    amount |-> e.amount,
                    posting_date |-> transaction.posting_date,
                    entry_hash |-> _calculate_entry_hash(entry_id,
                                       transaction.transaction_id, e.account_code,
                                       e.entry_type, e.amount)]
       IN  IF missing # {} THEN Return(p, Err("AccountNotFound"))
           ELSE /\ pc' = [pc EXCEPT ![p] = "post_commit"]
                /\ local' = [local EXCEPT ![p].entries =
                                 [i \in 1..Len(input.entries) |-> row(i)]]
                /\ last' = NoResult
    /\ UNCHANGED <<store, now>>

\* The rows as the store keeps them: the amount column has two decimals.
StoredEntry(row) == [row EXCEPT !.amount = Numeric_20_2(row.amount)]

\* A commit that loses the last journal entry of the session
FlushedEntries_DropLast(rows) == { StoredEntry(rows[i]) : i \in 1..(Len(rows) - 1) }

\* The journal entries one session inserts at its commit.
FlushedEntries(rows) == { StoredEntry(rows[i]) : i \in 1..Len(rows) }

\* The commit of post_transaction on a table whose transaction_number column
\* is not unique
PostCommit_NoUniqueNumber(p) ==
    /\ pc[p] = "post_commit"
    /\ LET transaction == local[p].txn[1]
           rows == local[p].entries
       IN  IF FALSE
           THEN /\ Return(p, Err("IntegrityError"))
                /\ UNCHANGED store
           ELSE /\ transactions' = transactions \cup {transaction}
                /\ journal_entries' = journal_entries
                                      \cup FlushedEntries(rows)
                /\ audit_log' = audit_log (+) SetToBag({
                       _log_audit("TRANSACTION_POSTED", "INFO", "POST_TRANSACTION",
                                  transaction.transaction_id, NoneId, Len(local[p].input.entries))})
                /\ UNCHANGED accounts
                /\ IF local[p].caller = "none"
                   THEN Return(p, Ok(transaction.transaction_id))
                   ELSE /\ pc' = [pc EXCEPT ![p] = "rev_update"]
                        /\ local' = [local EXCEPT ![p].txn = << >>, ![p].entries = << >>,
                                         ![p].reversal_id = transaction.transaction_id]
                        /\ last' = NoResult
    /\ UNCHANGED now

\* session.commit() of post_transaction: header, entries and audit record
\* become visible together; transaction_number is unique in the table.
PostCommit(p) ==
    /\ pc[p] = "post_commit"
    /\ LET transaction == local[p].txn[1]
           rows == local[p].entries
       IN  IF \E t \in transactions : t.transaction_number = transaction.transaction_number
           THEN /\ Return(p, Err("IntegrityError"))
                /\ UNCHANGED store
           ELSE /\ transactions' = transactions \cup {transaction}
                /\ journal_entries' = journal_entries
                                      \cup FlushedEntries(rows)
                /\ audit_log' = audit_log (+) SetToBag({
                       _log_audit("TRANSACTION_POSTED", "INFO", "POST_TRANSACTION",
                                  transaction.transaction_id, NoneId, Len(local[p].input.entries))})
                /\ UNCHANGED accounts
                /\ IF local[p].caller = "none"
                   THEN Return(p, Ok(transaction.transaction_id))
                   ELSE /\ pc' = [pc EXCEPT ![p] = "rev_update"]
                        /\ local' = [local EXCEPT ![p].txn = << >>, ![p].entries = << >>,
                                         ![p].reversal_id = transaction.transaction_id]
                        /\ last' = NoResult
    /\ UNCHANGED now

(***************************************************************************)
(* reverse_transaction                                                     *)
(***************************************************************************)
\* A reversal that keeps the entry type of the original
FlipType_Same(entry_type) == entry_type

FlipType(entry_type) == IF entry_type = "DEBIT" THEN "CREDIT" ELSE "DEBIT"

ReversalEntries(original_entries) ==
    [i \in 1..Len(original_entries) |->
        JournalEntryInput(original_entries[i].account_code,
                          FlipType(original_entries[i].entry_type),
                          original_entries[i].amount)]

ReversalInput(original_txn, original_entries) ==
    TransactionInput(<<"REVERSAL_">> \o original_txn.business_event_type,
                     "Reversal", now, ReversalEntries(original_entries))

\* reverse_transaction without the checks of the status and of reversed_by
ReverseOf_NoStateCheck(p, transaction_id, reversal_reason) ==
    /\ pc[p] = "idle"
    /\  LET found == TransactionById(transaction_id)
            original_txn == CHOOSE t \in found : TRUE
            original_entries == OrderByEntryNumber(EntriesOf(transaction_id))
        IN  IF found = {} THEN Return(p, Err("TransactionNotFound"))
            ELSE /\ HasCapacity
                 /\ pc' = [pc EXCEPT ![p] = "rev_call"]
                 /\ local' = [local EXCEPT
                                 ![p].input = ReversalInput(original_txn, original_entries),
                                 ![p].orig = transaction_id,
                                 ![p].reason = reversal_reason]
                 /\ last' = NoResult
    /\ UNCHANGED <<store, now>>

\* The outer session reads the original and its entries and builds the input
ReverseOf(p, transaction_id, reversal_reason) ==
    /\ pc[p] = "idle"
    /\  LET found == TransactionById(transaction_id)
            original_txn == CHOOSE t \in found : TRUE
            original_entries == OrderByEntryNumber(EntriesOf(transaction_id))
        IN  IF found = {} THEN Return(p, Err("TransactionNotFound"))
            ELSE IF original_txn.status # "POSTED" THEN Return(p, Err("NotPosted"))
            ELSE IF original_txn.reversed_by_transaction_id # NoneId
                 THEN Return(p, Err("AlreadyReversed"))
            ELSE /\ HasCapacity
                 /\ pc' = [pc EXCEPT ![p] = "rev_call"]
                 /\ local' = [local EXCEPT
                                 ![p].input = ReversalInput(original_txn, original_entries),
                                 ![p].orig = transaction_id,
                                 ![p].reason = reversal_reason]
                 /\ last' = NoResult
    /\ UNCHANGED <<store, now>>

Reverse(p) ==
    \E transaction_id \in 1..(MaxTxns + 1), reversal_reason \in ReversalReasons :
        ReverseOf(p, transaction_id, reversal_reason)

\* self.post_transaction(reversal_input, ...): a session of its own
ReversePost(p) ==
    /\ pc[p] = "rev_call"
    /\ StartPost(p, local[p].input, "reverse")
    /\ UNCHANGED <<store, now>>

\* The update of the two rows with the audit record of the original's posting
\* rewritten into the record of the reversal, instead of a new record
ReverseFinish_UpdatesAudit(p) ==
    /\ pc[p] = "rev_update"
    /\ LET transaction_id == local[p].orig
           reversal_id == local[p].reversal_id
           update(t) ==
               IF t.transaction_id = transaction_id
               THEN [t EXCEPT !.status = "REVERSED",
                              !.reversed_by_transaction_id = reversal_id]
               ELSE IF t.transaction_id = reversal_id
               THEN [t EXCEPT !.is_reversal = TRUE,
                              !.reverses_transaction_id = transaction_id,
                              !.reversal_reason = local[p].reason]
               ELSE t
           posted == { a \in BagToSet(audit_log) :
                          /\ a.event_type = "TRANSACTION_POSTED"
                          /\ a.transaction_id = transaction_id }
       IN  /\ transactions' = { update(t) : t \in transactions }
           /\ audit_log' = (audit_log (-) SetToBag(posted)) (+) SetToBag({
                  _log_audit("TRANSACTION_REVERSED", "WARNING", "REVERSE_TRANSACTION",
                             transaction_id, NoneId, 0)})
           /\ Return(p, Ok(reversal_id))
    /\ UNCHANGED <<accounts, journal_entries, now>>

\* Back in the outer session: the two rows are updated, the audit record is
\* added and the outer session commits.
ReverseFinish(p) ==
    /\ pc[p] = "rev_update"
    /\ LET transaction_id == local[p].orig
           reversal_id == local[p].reversal_id
           update(t) ==
               IF t.transaction_id = transaction_id
               THEN [t EXCEPT !.status = "REVERSED",
                              !.reversed_by_transaction_id = reversal_id]
               ELSE IF t.transaction_id = reversal_id
               THEN [t EXCEPT !.is_reversal = TRUE,
                              !.reverses_transaction_id = transaction_id,
                              !.reversal_reason = local[p].reason]
               ELSE t
       IN  /\ transactions' = { update(t) : t \in transactions }
           /\ audit_log' = audit_log (+) SetToBag({
                  _log_audit("TRANSACTION_REVERSED", "WARNING", "REVERSE_TRANSACTION",
                             transaction_id, NoneId, 0)})
           /\ Return(p, Ok(reversal_id))
    /\ UNCHANGED <<accounts, journal_entries, now>>

(***************************************************************************)
(* The clock and the specification.                                        *)
(***************************************************************************)
Tick ==
    /\ now < MaxClock
    /\ now' = now + 1
    /\ last' = NoResult
    /\ UNCHANGED <<store, pc, local>>

\* Callers run concurrently, within one instant of the clock.
Next ==
    \/ \E p \in Procs : CreateAccount(p, ConcurrentAccountDefs)
    \/ \E p \in Procs : CreateCommit(p)
    \/ \E p \in Procs : Post(p, ConcurrentInputs)
    \/ \E p \in Procs : PostEntries(p)
    \/ \E p \in Procs : PostCommit(p)
    \/ \E p \in Procs : Reverse(p)
    \/ \E p \in Procs : ReversePost(p)
    \/ \E p \in Procs : ReverseFinish(p)

Spec == Init /\ [][Next]_vars

\* One caller, one call at a time, every input.
NextSeq ==
    \/ CreateAccount("p1", AccountDefs)
    \/ CreateCommit("p1")
    \/ Post("p1", TxnInputs)
    \/ PostEntries("p1")
    \/ PostCommit("p1")
    \/ Reverse("p1")
    \/ ReversePost("p1")
    \/ ReverseFinish("p1")
    \/ Tick

SpecSeq == Init /\ [][NextSeq]_vars

(***************************************************************************)
(* The read operations, called by one caller between its other calls.      *)
(***************************************************************************)
QueryCodes == {"1100", "4100", "9999"}

QueryDates == {NoDate} \cup 0..MaxClock

\* What a read operation returns, by operation.
Result(kind, value) == [kind |-> kind, value |-> value]

\* Optional[Dict]: << >> is None
get_account(account_code) ==
    IF AccountByCode(account_code) = {} THEN << >>
    ELSE LET account == CHOOSE a \in AccountByCode(account_code) : TRUE
         IN  << [account_id |-> account.account_id,
                 account_code |-> account.account_code,
                 account_name |-> account.account_name,
                 account_type |-> account.account_type,
                 parent_account_id |-> account.parent_account_id,
                 level |-> account.level,
                 is_active |-> account.is_active] >>

GetAccount(p) ==
    /\ pc[p] = "idle"
    /\ \E account_code \in QueryCodes : Return(p, Result("account", get_account(account_code)))
    /\ UNCHANGED <<store, now>>

\* get_trial_balance that records its call in the audit log, as the report
\* engine does for its reports
GetTrialBalance_LogsAudit(p) ==
    /\ pc[p] = "idle"
    /\ \E as_of_date \in QueryDates : Return(p, Result("trial_balance", get_trial_balance(as_of_date)))
    /\ audit_log' = audit_log (+) SetToBag({
           _log_audit("REPORT_GENERATED", "INFO", "GENERATE_REPORT", NoneId, NoneId, 0)})
    /\ UNCHANGED <<accounts, transactions, journal_entries, now>>

GetAccountBalance(p) ==
    /\ pc[p] = "idle"
    /\ \E account_code \in QueryCodes, as_of_date \in QueryDates :
          IF AccountByCode(account_code) = {}
          THEN Return(p, Err("AccountNotFound"))
          ELSE Return(p, Result("balance", get_account_balance(account_code, as_of_date)))
    /\ UNCHANGED <<store, now>>

VerifyDoubleEntryIntegrity(p) ==
    /\ pc[p] = "idle"
    /\ \E transaction_id \in {NoneId} \cup 1..MaxTxns :
          Return(p, Result("integrity", verify_double_entry_integrity(transaction_id)))
    /\ UNCHANGED <<store, now>>

GetTrialBalance(p) ==
    /\ pc[p] = "idle"
    /\ \E as_of_date \in QueryDates : Return(p, Result("trial_balance", get_trial_balance(as_of_date)))
    /\ UNCHANGED <<store, now>>

\* One caller that posts, reverses and reads.
NextQuery ==
    \/ CreateAccount("p1", AccountDefs)
    \/ CreateCommit("p1")
    \/ Post("p1", ConcurrentInputs)
    \/ PostEntries("p1")
    \/ PostCommit("p1")
    \/ Reverse("p1")
    \/ ReversePost("p1")
    \/ ReverseFinish("p1")
    \/ GetAccount("p1")
    \/ GetAccountBalance("p1")
    \/ VerifyDoubleEntryIntegrity("p1")
    \/ GetTrialBalance("p1")

SpecQuery == Init /\ [][NextQuery]_vars

(***************************************************************************)
(* Reports (ledger_reporting.py).  A report is a dict of JSON values; its  *)
(* hash is taken over json.dumps(report, sort_keys=True) before the key    *)
(* report_hash is added to it.                                             *)
(***************************************************************************)
MaxReports == 1

ReportDates == 0..MaxClock

ReportUsers == {"auditor"}

\* json.dumps of a float that holds thousandths: repr() prints the shortest
\* text that reads back as the same float (0.01, 1.5, 0.0, -0.01)
json_float(amount) ==
    LET a == IF amount < 0 THEN -amount ELSE amount
        f == a % 1000
        fraction == IF f % 100 = 0 THEN ToString(f \div 100)
                    ELSE IF f % 10 = 0
                         THEN ToString(f \div 100) \o ToString((f % 100) \div 10)
                    ELSE ToString(f \div 100) \o ToString((f % 100) \div 10)
                             \o ToString(f % 10)
    IN  (IF amount < 0 THEN "-" ELSE "") \o ToString(a \div 1000) \o "." \o fraction

json_bool(b) == IF b THEN "true" ELSE "false"

\* sum(...) starts from the int 0: the sum of no float is the int 0, which
\* json.dumps prints without a decimal point.
json_sum(total) == IF total.is_float THEN json_float(total.value) ELSE ToString(total.value)

\* str() of a sum of Numeric(20, 2) column values: two decimal places
Numeric_str(amount) ==
    ToString(amount \div 1000) \o "." \o ToString((amount % 1000) \div 100)
        \o ToString((amount % 100) \div 10)

\* The keys of the reports in the order of sort_keys=True.
ReportKeys ==
    <<"accounts", "as_of_date", "assets", "equity", "error_count", "errors",
      "generated_at", "generated_by", "is_valid", "liabilities", "report_hash",
      "report_id", "report_name", "report_type", "total_transactions", "totals">>

\* The keys of an item of a list of accounts, in the same order.
AccountKeys == <<"account_code", "account_name", "account_type", "balance", "section">>

json_account(row) ==
    LET keys == SelectSeq(AccountKeys, LAMBDA k : k \in DOMAIN row)
        items == [i \in 1..Len(keys) |->
                     json_string(keys[i]) \o ": "
                         \o (IF keys[i] = "balance" THEN json_float(row.balance)
                             ELSE json_string(row[keys[i]]))]
    IN  "{" \o json_list_items(items) \o "}"

json_totals(totals) ==
    IF "balance_check" \in DOMAIN totals
    THEN "{\"balance_check\": " \o json_bool(totals.balance_check)
             \o ", \"total_assets\": " \o json_sum(totals.total_assets)
             \o ", \"total_equity\": " \o json_sum(totals.total_equity)
             \o ", \"total_liabilities\": " \o json_sum(totals.total_liabilities) \o "}"
    ELSE "{\"is_balanced\": " \o json_bool(totals.is_balanced)
             \o ", \"total_credits\": " \o json_sum(totals.total_credits)
             \o ", \"total_debits\": " \o json_sum(totals.total_debits) \o "}"

\* json.dumps of the value of a key, by the type of value the reports hold
\* under that key
json_value(key, report_data) ==
    CASE key \in {"accounts", "assets", "liabilities", "equity"} ->
             json_list([i \in 1..Len(report_data[key]) |->
                           json_account(report_data[key][i])])
      [] key = "errors" ->
             json_list([i \in 1..Len(report_data.errors) |->
                           json_string(report_data.errors[i])])
      [] key = "totals" -> json_totals(report_data.totals)
      [] key = "is_valid" -> json_bool(report_data.is_valid)
      [] key \in {"error_count", "total_transactions"} -> ToString(report_data[key])
      [] key \in {"as_of_date", "generated_at", "report_id"} ->
             json_string(ToString(report_data[key]))
      [] OTHER -> json_string(report_data[key])

\* A hash that leaves the totals of the report out of the hashed text
_calculate_report_hash_NoTotals(report_data) ==
    LET keys == SelectSeq(ReportKeys, LAMBDA k : k \in DOMAIN report_data /\ k # "totals")
        items == [i \in 1..Len(keys) |->
                     json_string(keys[i]) \o ": " \o json_value(keys[i], report_data)]
    IN  sha256_hexdigest("{" \o json_list_items(items) \o "}")

_calculate_report_hash(report_data) ==
    LET keys == SelectSeq(ReportKeys, LAMBDA k : k \in DOMAIN report_data)
        items == [i \in 1..Len(keys) |->
                     json_string(keys[i]) \o ": " \o json_value(keys[i], report_data)]
    IN  sha256_hexdigest("{" \o json_list_items(items) \o "}")

\* report['report_hash'] = report_hash
WithReportHash(report) == report @@ [report_hash |-> _calculate_report_hash(report)]

\* report_copy = report.copy(); report_copy.pop('report_hash', None)
WithoutReportHash(report) == [k \in DOMAIN report \ {"report_hash"} |-> report[k]]

verify_report_integrity(report) ==
    IF "report_hash" \notin DOMAIN report THEN FALSE
    ELSE IF report.report_hash = "" THEN FALSE
    ELSE report.report_hash = _calculate_report_hash(WithoutReportHash(report))

RECURSIVE SumBalances(_, _)
SumBalances(rows, sign) ==
    IF rows = << >> THEN 0
    ELSE (IF Head(rows).balance * sign > 0 THEN Head(rows).balance * sign ELSE 0)
         + SumBalances(Tail(rows), sign)

\* sum(abs(float(a['balance'])) for a in trial_balance if a['balance'] > 0),
\* and the same for < 0 with sign = -1
FloatSum(rows, sign) ==
    [is_float |-> \E i \in 1..Len(rows) : rows[i].balance * sign > 0,
     value |-> SumBalances(rows, sign)]

NewReportId ==
    1 + CopiesIn(_log_audit("REPORT_GENERATED", "INFO", "GENERATE_REPORT", NoneId, NoneId, 0),
                 audit_log)

generate_trial_balance_report(as_of_date, generated_by, include_zero_balances) ==
    LET all == get_trial_balance(as_of_date)
        trial_balance == IF include_zero_balances THEN all
                         ELSE SelectSeq(all, LAMBDA row : row.balance # 0)
        total_debits == FloatSum(trial_balance, 1)
        total_credits == FloatSum(trial_balance, -1)
        difference == total_debits.value - total_credits.value
    IN  WithReportHash(
            [report_id |-> NewReportId,
             report_type |-> "TRIAL_BALANCE",
             report_name |-> "Trial Balance as of " \o ToString(Day(as_of_date)),
             as_of_date |-> as_of_date,
             generated_at |-> now,
             generated_by |-> generated_by,
             accounts |-> trial_balance,
             totals |-> [total_debits |-> total_debits,
                         total_credits |-> total_credits,
                         is_balanced |-> difference < 10 /\ -difference < 10]])

\* The messages of verify_double_entry_integrity, in the order of the numbers
RECURSIVE ErrorMessages(_)
ErrorMessages(txns) ==
    IF txns = {} THEN << >>
    ELSE LET t == CHOOSE x \in txns : \A y \in txns : x.transaction_id <= y.transaction_id
         IN  << "Transaction " \o ToString(t.transaction_number[1]) \o "-"
                    \o ToString(t.transaction_number[2]) \o ": Debits ("
                    \o Numeric_str(SumRows(EntriesOf(t.transaction_id), "DEBIT"))
                    \o ") != Credits ("
                    \o Numeric_str(SumRows(EntriesOf(t.transaction_id), "CREDIT")) \o ")" >>
             \o ErrorMessages(txns \ {t})

generate_integrity_report(generated_by) ==
    LET result == verify_double_entry_integrity(NoneId)
        errors == ErrorMessages({ t \in transactions :
                                    t.transaction_number \in result.errors })
    IN  WithReportHash(
            [report_id |-> NewReportId,
             report_type |-> "INTEGRITY_VERIFICATION",
             report_name |-> "Integrity Verification Report",
             generated_at |-> now,
             generated_by |-> generated_by,
             is_valid |-> result.is_valid,
             total_transactions |->
                 Cardinality({ t \in transactions : t.status = "POSTED" }),
             errors |-> errors,
             error_count |-> Len(errors)])

RECURSIVE SumItems(_)
SumItems(items) ==
    IF items = << >> THEN 0 ELSE Head(items).balance + SumItems(Tail(items))

\* sum(a['balance'] for a in assets): the int 0 when the list is empty
ItemSum(items) == [is_float |-> items # << >>, value |-> SumItems(items)]

generate_balance_sheet(as_of_date, generated_by, include_zero_balances) ==
    LET ordered == OrderByAccountCode({ a \in accounts : a.is_active })
        account_data(account) ==
            [account_code |-> account.account_code,
             account_name |-> account.account_name,
             balance |-> get_account_balance(account.account_code, as_of_date)]
        listed == SelectSeq(ordered, LAMBDA account :
                      include_zero_balances
                      \/ get_account_balance(account.account_code, as_of_date) # 0)
        section(type) ==
            LET of_type == SelectSeq(listed, LAMBDA account : account.account_type = type)
            IN  [i \in 1..Len(of_type) |-> account_data(of_type[i])]
        assets == section("ASSET")
        liabilities == section("LIABILITY")
        equity == section("EQUITY")
        difference == SumItems(assets) - (SumItems(liabilities) + SumItems(equity))
    IN  WithReportHash(
            [report_id |-> NewReportId,
             report_type |-> "BALANCE_SHEET",
             report_name |-> "Balance Sheet as of " \o ToString(Day(as_of_date)),
             as_of_date |-> as_of_date,
             generated_at |-> now,
             generated_by |-> generated_by,
             assets |-> assets,
             liabilities |-> liabilities,
             equity |-> equity,
             totals |-> [total_assets |-> ItemSum(assets),
                         total_liabilities |-> ItemSum(liabilities),
                         total_equity |-> ItemSum(equity),
                         balance_check |-> difference < 10 /\ -difference < 10]])

\* item['section'] = section, on the dicts the report holds
WithSection(items, section) ==
    [i \in 1..Len(items) |->
        [k \in DOMAIN items[i] \cup {"section"} |->
            IF k = "section" THEN section ELSE items[i][k]]]

\* The report the caller holds, after export_to_csv has run on it.  The
\* income statement, the general ledger and the audit trail are not among
\* the reports generated here.
export_to_csv(report) ==
    IF report.report_type = "BALANCE_SHEET"
    THEN [report EXCEPT !.assets = WithSection(@, "assets"),
                        !.liabilities = WithSection(@, "liabilities"),
                        !.equity = WithSection(@, "equity")]
    ELSE report

\* _save_report_metadata: the audit record of the report, committed
SaveReportMetadata ==
    /\ audit_log' = audit_log (+) SetToBag({
           _log_audit("REPORT_GENERATED", "INFO", "GENERATE_REPORT", NoneId, NoneId, 0)})
    /\ UNCHANGED <<accounts, transactions, journal_entries>>

GenerateTrialBalanceReport(p) ==
    /\ pc[p] = "idle"
    /\ NewReportId <= MaxReports
    /\ \E as_of_date \in ReportDates, generated_by \in ReportUsers,
          include_zero_balances \in BOOLEAN :
          Return(p, Result("report",
                           generate_trial_balance_report(as_of_date, generated_by,
                                                         include_zero_balances)))
    /\ SaveReportMetadata
    /\ UNCHANGED now

GenerateIntegrityReport(p) ==
    /\ pc[p] = "idle"
    /\ NewReportId <= MaxReports
    /\ \E generated_by \in ReportUsers :
          Return(p, Result("report", generate_integrity_report(generated_by)))
    /\ SaveReportMetadata
    /\ UNCHANGED now

GenerateBalanceSheet(p) ==
    /\ pc[p] = "idle"
    /\ NewReportId <= MaxReports
    /\ \E as_of_date \in ReportDates, generated_by \in ReportUsers,
          include_zero_balances \in BOOLEAN :
          Return(p, Result("report",
                           generate_balance_sheet(as_of_date, generated_by,
                                                  include_zero_balances)))
    /\ SaveReportMetadata
    /\ UNCHANGED now

\* The caller exports the report it has just received; the outcome carries
\* the report as the caller holds it after the call.  json.dump only reads.
ExportToJson(p) ==
    /\ pc[p] = "idle"
    /\ last.kind = "report"
    /\ Return(p, Result("exported", last.value))
    /\ UNCHANGED <<store, now>>

\* export_to_csv raises ValueError for a report type it does not know
ExportToCsv(p) ==
    /\ pc[p] = "idle"
    /\ last.kind = "report"
    /\ IF last.value.report_type \in {"BALANCE_SHEET", "TRIAL_BALANCE"}
       THEN Return(p, Result("exported", export_to_csv(last.value)))
       ELSE Return(p, Result("UnknownReportType", last.value))
    /\ UNCHANGED <<store, now>>

\* One caller that posts, reverses and generates reports.
NextReport ==
    \/ CreateAccount("p1", AccountDefs)
    \/ CreateCommit("p1")
    \/ Post("p1", TxnInputs)
    \/ PostEntries("p1")
    \/ PostCommit("p1")
    \/ Reverse("p1")
    \/ ReversePost("p1")
    \/ ReverseFinish("p1")
    \/ GenerateTrialBalanceReport("p1")
    \/ GenerateIntegrityReport("p1")
    \/ GenerateBalanceSheet("p1")
    \/ ExportToJson("p1")
    \/ ExportToCsv("p1")

SpecReport == Init /\ [][NextReport]_vars

(***************************************************************************)
(* Writes that reach the tables without the engine.  The engine has no     *)
(* operation that changes a journal entry or the is_active flag of an      *)
(* account; the tables accept both as plain UPDATE statements.             *)
(***************************************************************************)
MaxAltered == 1

\* The hash of an entry is taken over the amount it was posted with.
AlteredEntries == { e \in journal_entries : e.amount # Numeric_20_2(e.entry_hash.amount) }

\* UPDATE journal_entries SET amount = amount + 0.01 WHERE entry_id = ...
\* (chk_positive_amount holds; the hash column is left as it was)
AlterEntry ==
    /\ pc["p1"] = "idle"
    /\ Cardinality(AlteredEntries) < MaxAltered
    /\ \E e \in journal_entries \ AlteredEntries :
          journal_entries' = (journal_entries \ {e}) \cup {[e EXCEPT !.amount = e.amount + 10]}
    /\ last' = NoResult
    /\ UNCHANGED <<accounts, transactions, audit_log, now, pc, local>>

\* UPDATE chart_of_accounts SET is_active = false WHERE account_code = ...
DeactivateAccount ==
    /\ pc["p1"] = "idle"
    /\ \E a \in accounts :
          /\ a.is_active
          /\ accounts' = (accounts \ {a}) \cup {[a EXCEPT !.is_active = FALSE]}
    /\ last' = NoResult
    /\ UNCHANGED <<transactions, journal_entries, audit_log, now, pc, local>>

\* One caller of the engine next to direct writes to the database.
NextDb ==
    \/ CreateAccount("p1", AccountDefs)
    \/ CreateCommit("p1")
    \/ Post("p1", ConcurrentInputs)
    \/ PostEntries("p1")
    \/ PostCommit("p1")
    \/ Reverse("p1")
    \/ ReversePost("p1")
    \/ ReverseFinish("p1")
    \/ AlterEntry
    \/ DeactivateAccount

SpecDb == Init /\ [][NextDb]_vars

(***************************************************************************)
(* Commits that fail.  session.commit() raises when the database refuses   *)
(* or loses the commit; every operation catches the exception, rolls its   *)
(* session back and raises it again.  What an earlier session committed    *)
(* stays committed.                                                        *)
(***************************************************************************)
CommitFails(p) ==
    /\ pc[p] \in {"create_commit", "post_commit", "rev_update"}
    /\ Return(p, Err("OperationalError"))
    /\ UNCHANGED <<store, now>>

\* One caller on a database whose commits may fail.
NextFault ==
    \/ CreateAccount("p1", ConcurrentAccountDefs)
    \/ CreateCommit("p1")
    \/ Post("p1", ConcurrentInputs)
    \/ PostEntries("p1")
    \/ PostCommit("p1")
    \/ Reverse("p1")
    \/ ReversePost("p1")
    \/ ReverseFinish("p1")
    \/ CommitFails("p1")

SpecFault == Init /\ [][NextFault]_vars

(***************************************************************************)
(* Properties.                                                             *)
(***************************************************************************)
DebitTotal(tid) == SumRows(EntriesOf(tid), "DEBIT")

CreditTotal(tid) == SumRows(EntriesOf(tid), "CREDIT")

\* C1: every persisted transaction, whatever its status, has the sum of its
\* DEBIT entry amounts equal to the sum of its CREDIT entry amounts.
C1_EveryTransactionBalanced ==
    \A t \in transactions : DebitTotal(t.transaction_id) = CreditTotal(t.transaction_id)

\* C2: after post_transaction(T) followed by a successful reverse_transaction
\* of T, every account's balance is what it was before T was posted, i.e. the
\* balance of the ledger without T and without its reversal.
C2_ReversalRestoresBalance ==
    \A x \in transactions, r \in transactions :
        ( /\ x.status = "REVERSED"
          /\ x.reversed_by_transaction_id = r.transaction_id
          /\ r.is_reversal /\ r.reverses_transaction_id = x.transaction_id
          /\ r.status = "POSTED" )
        => \A a \in accounts :
              get_account_balance(a.account_code, NoDate)
                = Balance(a.account_code, NoDate,
                          transactions \ {x, r},
                          journal_entries \ (EntriesOf(x.transaction_id)
                                             \cup EntriesOf(r.transaction_id)))

\* An input that is well formed except that its debits and credits differ.
IsUnbalancedInput(input) ==
    /\ input.business_event_type # << >>
    /\ input.description # NoneText
    /\ Len(input.entries) > 0
    /\ \A i \in 1..Len(input.entries) : input.entries[i].amount >= 0
    /\ SumAmounts(input.entries, "DEBIT") # SumAmounts(input.entries, "CREDIT")

PostedAudits(tid) ==
    { a \in BagToSet(audit_log) : a.event_type = "TRANSACTION_POSTED" /\ a.transaction_id = tid }

\* C4: in every committed state a transaction header is present if and only
\* if all of its journal entries and its TRANSACTION_POSTED audit record are:
\* each header has exactly one such record, its entries are numbered
\* 1..entry_count, and no entry or record refers to an absent header.
C4_PostAtomic ==
    /\ \A t \in transactions :
          /\ Cardinality(PostedAudits(t.transaction_id)) = 1
          /\ \A a \in PostedAudits(t.transaction_id) :
                /\ CopiesIn(a, audit_log) = 1
                /\ a.entry_count >= 1
                /\ { e.entry_number : e \in EntriesOf(t.transaction_id) } = 1..a.entry_count
                /\ Cardinality(EntriesOf(t.transaction_id)) = a.entry_count
    /\ \A e \in journal_entries : TransactionById(e.transaction_id) # {}
    /\ \A a \in BagToSet(audit_log) :
          a.event_type = "TRANSACTION_POSTED" => TransactionById(a.transaction_id) # {}

\* A committed transaction next to a session that holds an uncommitted one.
C4_Witness ==
    /\ transactions # {}
    /\ \E p \in Procs :
          /\ pc[p] = "post_commit"
          /\ Len(local[p].entries) = 2
          /\ TransactionById(local[p].txn[1].transaction_id) = {}

\* C5: two post_transaction calls that are open at the same time on the same
\* day never hold the same transaction number.
C5_ConcurrentNumbersDiffer ==
    \A p \in Procs, q \in Procs :
        (p # q /\ local[p].txn # << >> /\ local[q].txn # << >>)
        => local[p].txn[1].transaction_number # local[q].txn[1].transaction_number

IsReversalTransaction(t) == Head(t.business_event_type) = "REVERSAL_"

\* C6: no committed state holds a reversal transaction whose original is
\* still POSTED without reversed_by, or whose is_reversal is still false.
C6_ReversalOneUnitOfWork ==
    \A r \in transactions :
        IsReversalTransaction(r)
        => /\ r.is_reversal
           /\ \E o \in transactions :
                 /\ o.transaction_id = r.reverses_transaction_id
                 /\ o.status = "REVERSED"
                 /\ o.reversed_by_transaction_id # NoneId

\* C7: reverse_transaction on a transaction that was already reversed fails
\* with the AlreadyReversed error and creates no transaction.
C7_SecondReversalAlreadyReversed ==
    [][ \A p \in Procs, tid \in 1..(MaxTxns + 1), reason \in ReversalReasons :
          ( /\ \E t \in transactions :
                  /\ t.transaction_id = tid
                  /\ t.status = "REVERSED"
                  /\ t.reversed_by_transaction_id # NoneId
            /\ ReverseOf(p, tid, reason) )
          => /\ last' = Err("AlreadyReversed")
             /\ transactions' = transactions ]_vars

\* C8: once a transaction is committed as POSTED, later steps change nothing
\* of it but status and reversed_by, and nothing of its journal entries.
C8_PostedImmutable ==
    [][ \A t \in transactions :
          t.status = "POSTED"
          => /\ \E u \in transactions' :
                  t = [u EXCEPT !.status = t.status,
                                !.reversed_by_transaction_id = t.reversed_by_transaction_id]
             /\ { e \in journal_entries' : e.transaction_id = t.transaction_id }
                  = EntriesOf(t.transaction_id) ]_vars

\* C9: a status changes only from POSTED to REVERSED, and reversed_by, once
\* set, is never cleared or changed.
C9_StatusOneWay ==
    [][ \A t \in transactions :
          \E u \in transactions' :
              /\ u.transaction_id = t.transaction_id
              /\ u.status = t.status \/ (t.status = "POSTED" /\ u.status = "REVERSED")
              /\ t.reversed_by_transaction_id # NoneId
                   => u.reversed_by_transaction_id = t.reversed_by_transaction_id ]_vars

\* C10: after any sequence of create_account, post_transaction and
\* reverse_transaction calls verify_double_entry_integrity() returns
\* (True, []).
C10_VerifyReportsNoViolation ==
    verify_double_entry_integrity(NoneId) = [is_valid |-> TRUE, errors |-> {}]

\* C11: whenever a persisted transaction, POSTED or REVERSED, has entries whose
\* debit total differs from their credit total (entries altered outside the
\* engine included), verify_double_entry_integrity() returns valid = False
\* and its violations name that transaction.
C11_VerifyDetectsAlteredEntries ==
    \A t \in transactions :
        DebitTotal(t.transaction_id) # CreditTotal(t.transaction_id)
        => /\ ~ verify_double_entry_integrity(NoneId).is_valid
           /\ t.transaction_number \in verify_double_entry_integrity(NoneId).errors

\* The effect of one entry on an account of the given type: debits raise
\* ASSET and EXPENSE accounts, credits raise the other three types.
SignedAmount(account_type, e) ==
    IF (account_type \in {"ASSET", "EXPENSE"}) <=> (e.entry_type = "DEBIT")
    THEN e.amount ELSE 0 - e.amount

RECURSIVE SumSigned(_, _)
SumSigned(account_type, rows) ==
    IF rows = {} THEN 0
    ELSE LET r == CHOOSE x \in rows : TRUE
         IN  SignedAmount(account_type, r) + SumSigned(account_type, rows \ {r})

\* The entries of an account whose transaction is POSTED now and was posted
\* at or before t (any time when t is omitted).
CountedEntries(account_code, t) ==
    { e \in journal_entries :
        /\ e.account_code = account_code
        /\ \E x \in TransactionById(e.transaction_id) :
              /\ x.status = "POSTED"
              /\ t = NoDate \/ x.posting_date <= t }

RunningBalance(account_code) ==
    LET account == CHOOSE a \in AccountByCode(account_code) : TRUE
    IN  SumSigned(account.account_type,
                  { e \in journal_entries : e.account_code = account_code })

\* C13: when no call is open, the balance kept incrementally at each
\* successful posting (those of reverse_transaction included) equals
\* get_account_balance(A) recomputed from the persisted entries, for every
\* account A.
C13_NoDrift ==
    pc["p1"] = "idle"
    => \A a \in accounts :
          RunningBalance(a.account_code) = get_account_balance(a.account_code, NoDate)

PostFailures == {"EventTypeRequired", "DescriptionRequired", "EmptyEntrySet",
                 "AccountCodeRequired", "InvalidEntryType", "NegativeAmount",
                 "Unbalanced", "AccountNotFound"}

FailedAudits == { a \in BagToSet(audit_log) : a.event_type = "TRANSACTION_FAILED" }

\* C14: when a post_transaction call has just failed (validation failure or
\* unknown account), the audit log holds a TRANSACTION_FAILED record.
C14_FailedPostingAudited ==
    last.kind \in PostFailures => FailedAudits # {}

MirrorsOriginal(r, o) ==
    /\ Cardinality(EntriesOf(r.transaction_id)) = Cardinality(EntriesOf(o.transaction_id))
    /\ \A x \in EntriesOf(o.transaction_id) :
          \E y \in EntriesOf(r.transaction_id) :
              /\ y.entry_number = x.entry_number
              /\ y.account_code = x.account_code
              /\ y.amount = x.amount
              /\ \/ x.entry_type = "DEBIT" /\ y.entry_type = "CREDIT"
                 \/ x.entry_type = "CREDIT" /\ y.entry_type = "DEBIT"
    /\ Len(r.business_event_type) = Len(o.business_event_type) + 1
    /\ Head(r.business_event_type) = "REVERSAL_"
    /\ Tail(r.business_event_type) = o.business_event_type

\* C16: the transaction that reverse_transaction creates mirrors the original
\* entry by entry (same count, same account code and amount, opposite type)
\* and its business event type is REVERSAL_ followed by the original's; this
\* holds from the commit of the reversal on and once the two are linked.
C16_ReversalMirrorsOriginal ==
    /\ \A p \in Procs :
          pc[p] = "rev_update"
          => \E r \in TransactionById(local[p].reversal_id),
                o \in TransactionById(local[p].orig) : MirrorsOriginal(r, o)
    /\ \A r \in transactions :
          r.is_reversal
          => \E o \in TransactionById(r.reverses_transaction_id) : MirrorsOriginal(r, o)

\* A reversal and the reversal of that reversal, both linked to their originals.
C16_Witness ==
    \E r \in transactions, q \in transactions :
        /\ r.is_reversal /\ r.business_event_type = <<"REVERSAL_", "SALE">>
        /\ q.is_reversal /\ q.reverses_transaction_id = r.transaction_id
        /\ Cardinality(EntriesOf(q.transaction_id)) = 2

HasUnknownAccount(input) ==
    \E i \in 1..Len(input.entries) : AccountByCode(input.entries[i].account_code) = {}

\* The TRANSACTION_POSTED records of the audit log, with their multiplicity.
PostedAuditBag ==
    [a \in { x \in BagToSet(audit_log) : x.event_type = "TRANSACTION_POSTED" }
       |-> CopiesIn(a, audit_log)]

\* C17: a post_transaction call whose input passed validation (so is
\* balanced) and names an account code that is not registered, at whatever
\* position, ends with the account-not-found error; the step that opens the
\* call and the step that ends it leave transactions, journal_entries and the
\* TRANSACTION_POSTED audit records as they were.
C17_UnknownAccountRejected ==
    [][ \A p \in Procs :
          /\ (pc[p] # "post_entries" /\ pc'[p] = "post_entries")
             => /\ transactions' = transactions
                /\ journal_entries' = journal_entries
                /\ PostedAuditBag' = PostedAuditBag
          /\ ( /\ pc[p] = "post_entries"
               /\ HasUnknownAccount(local[p].input)
               /\ pc'[p] # "post_entries" )
             => /\ last' = Err("AccountNotFound")
                /\ pc'[p] = "idle"
                /\ local'[p] = IdleLocal
                /\ transactions' = transactions
                /\ journal_entries' = journal_entries
                /\ PostedAuditBag' = PostedAuditBag ]_vars

\* The call has failed although every account of the account definitions is
\* registered: the unknown account was 9999, the second entry of its input.
C17_Witness ==
    /\ last = Err("AccountNotFound")
    /\ \A code \in {"1100", "4100", "1110"} : AccountByCode(code) # {}
    /\ transactions # {}
    /\ PostedAuditBag # << >>

HasInactiveAccount(input) ==
    \E i \in 1..Len(input.entries) :
        \E a \in AccountByCode(input.entries[i].account_code) : ~ a.is_active

\* C18: a post_transaction call whose entries all name registered accounts,
\* one of them with is_active = false, ends with the AccountInactive error
\* and commits nothing.
C18_InactiveAccountRejected ==
    [][ \A p \in Procs :
          ( /\ pc[p] = "post_entries"
            /\ HasInactiveAccount(local[p].input)
            /\ ~ HasUnknownAccount(local[p].input)
            /\ pc'[p] # "post_entries" )
          => /\ last' = Err("AccountInactive")
             /\ pc'[p] = "idle"
             /\ transactions' = transactions
             /\ journal_entries' = journal_entries ]_vars

\* The preconditions of reverse_transaction fail for this transaction id.
ReversalPreconditionFails(tid) ==
    \/ TransactionById(tid) = {}
    \/ \E t \in TransactionById(tid) :
          t.status # "POSTED" \/ t.reversed_by_transaction_id # NoneId

\* C19: a reverse_transaction call on an unknown transaction id, on a
\* transaction whose status is not POSTED or on one that is already reversed
\* ends at once with an error and leaves accounts, transactions, journal
\* entries and the audit log unchanged.
C19_FailedReversalChangesNothing ==
    [][ \A p \in Procs, tid \in 1..(MaxTxns + 1), reason \in ReversalReasons :
          (ReversalPreconditionFails(tid) /\ ReverseOf(p, tid, reason))
          => /\ last'.kind \in {"TransactionNotFound", "NotPosted", "AlreadyReversed"}
             /\ store' = store
             /\ pc'[p] = "idle"
             /\ local'[p] = IdleLocal ]_vars

\* A reversal has been refused for a transaction that was reversed before.
C19_Witness ==
    /\ last = Err("NotPosted")
    /\ \E t \in transactions : t.status = "REVERSED" /\ t.reversed_by_transaction_id # NoneId
    /\ \E a \in BagToSet(audit_log) : a.event_type = "TRANSACTION_REVERSED"

\* C20: after every step no two accounts share a code, also when callers
\* create the same code concurrently; a create_account call with a valid
\* definition whose code is registered ends with the duplicate-account error
\* and leaves accounts and audit log unchanged; a caller whose code was
\* registered by another caller before its commit fails without adding an
\* account or an audit record; the code of an existing account never changes.
C20_AccountCodesUnique ==
    [][ /\ \A a \in accounts', b \in accounts' : a.account_code = b.account_code => a = b
        /\ \A p \in Procs, def \in AccountDefs \cup ConcurrentAccountDefs :
              ( /\ AccountDefinition_validate(def) = "ok"
                /\ AccountByCode(def.account_code) # {}
                /\ CreateAccount(p, {def}) )
              => /\ last' = Err("DuplicateAccount")
                 /\ pc'[p] = "idle"
                 /\ accounts' = accounts
                 /\ audit_log' = audit_log
        /\ \A p \in Procs :
              ( /\ pc[p] = "create_commit"
                /\ AccountByCode(local[p].account[1].account_code) # {}
                /\ pc'[p] # "create_commit" )
              => /\ last'.kind \notin {"ok", "none"}
                 /\ accounts' = accounts
                 /\ audit_log' = audit_log
        /\ \A a \in accounts :
              \E b \in accounts' :
                  b.account_id = a.account_id /\ b.account_code = a.account_code ]_vars

\* Two callers created the same code at the same time: one account and one
\* audit record exist and the other caller's commit has just been refused.
C20_Witness ==
    /\ last = Err("IntegrityError")
    /\ transactions = {}
    /\ Cardinality(accounts) = 1
    /\ BagCardinality(audit_log) = 1

\* C21: get_trial_balance(t) has one row for every active account, none for
\* an inactive account and none for anything else, the rows are in ascending
\* order of account code, and the balance of each row is
\* get_account_balance(code, t).
C21_TrialBalanceRows ==
    \A t \in {NoDate} \cup 0..MaxClock :
        LET tb == get_trial_balance(t)
        IN  /\ \A a \in accounts :
                  Cardinality({ i \in 1..Len(tb) : tb[i].account_code = a.account_code })
                    = IF a.is_active THEN 1 ELSE 0
            /\ \A i \in 1..Len(tb) : AccountByCode(tb[i].account_code) # {}
            /\ \A i \in 1..Len(tb), j \in 1..Len(tb) :
                  i < j => CodeRank(tb[i].account_code) < CodeRank(tb[j].account_code)
            /\ \A i \in 1..Len(tb) :
                  tb[i].balance = get_account_balance(tb[i].account_code, t)

\* Three accounts, one of them inactive with entries of its own, and a row
\* with a balance that is not zero.
C21_Witness ==
    /\ Cardinality(accounts) = 3
    /\ \E a \in accounts :
          /\ ~ a.is_active
          /\ \E e \in journal_entries : e.account_code = a.account_code
    /\ Len(get_trial_balance(NoDate)) = 2
    /\ get_trial_balance(NoDate)[2].balance # 0

\* C23: every step keeps every committed audit record, with its content and
\* its multiplicity: the audit log of the old state is contained in the audit
\* log of the new state.
C23_AuditLogAppendOnly ==
    [][ audit_log \sqsubseteq audit_log' ]_vars

\* An audit log that holds records of account creations, postings and
\* reversals.
C23_Witness ==
    \A event_type \in {"ACCOUNT_CREATED", "TRANSACTION_POSTED", "TRANSACTION_REVERSED"} :
        \E a \in BagToSet(audit_log) : a.event_type = event_type

\* C24: a step that returns from get_account, get_account_balance (with a
\* balance or with its account-not-found error), verify_double_entry_integrity
\* or get_trial_balance, and that no open call moves with, leaves the four tables
\* unchanged; transactions and journal entries change only at the commits of
\* post_transaction and reverse_transaction, and accounts only at the commit
\* of create_account.
C24_ReadsChangeNothing ==
    [][ /\ ( /\ pc' = pc
             /\ last'.kind \in {"account", "balance", "integrity", "trial_balance",
                                 "AccountNotFound"} )
           => store' = store
        /\ (transactions' # transactions \/ journal_entries' # journal_entries)
           => \E p \in Procs : pc[p] \in {"post_commit", "rev_update"} /\ pc'[p] # pc[p]
        /\ accounts' # accounts
           => \E p \in Procs : pc[p] = "create_commit" /\ pc'[p] = "idle" ]_vars

\* A trial balance with a balance that is not zero has just been returned
\* from a ledger that holds a reversed transaction.
C24_Witness ==
    /\ last.kind = "trial_balance"
    /\ Len(last.value) = 3
    /\ last.value[1].balance # 0
    /\ \E t \in transactions : t.status = "REVERSED"

\* C25: the step that ends a reverse_transaction call with success appends
\* exactly one audit record, a TRANSACTION_REVERSED record of severity
\* WARNING with the id of the original transaction, and after every step no
\* TRANSACTION_REVERSED record refers to a transaction whose status is POSTED.
C25_ReversalAudited ==
    [][ /\ \A p \in Procs :
              (pc[p] = "rev_update" /\ pc'[p] = "idle" /\ last'.kind = "ok")
              => \E a \in BagToSet(audit_log') :
                    /\ a.event_type = "TRANSACTION_REVERSED"
                    /\ a.severity = "WARNING"
                    /\ a.transaction_id = local[p].orig
                    /\ audit_log' = audit_log (+) SetToBag({a})
        /\ \A a \in BagToSet(audit_log') :
              a.event_type = "TRANSACTION_REVERSED"
              => \A t \in transactions' :
                    t.transaction_id = a.transaction_id => t.status # "POSTED" ]_vars

\* A reversal and the reversal of that reversal have both been recorded.
C25_Witness ==
    /\ last.kind = "ok"
    /\ Cardinality({ a \in BagToSet(audit_log) : a.event_type = "TRANSACTION_REVERSED" }) = 2
    /\ Cardinality({ t \in transactions : t.status = "REVERSED" }) = 2

\* C26: a post_transaction call with an empty entry list ends at once with
\* the empty-entry-set error, and a call whose input is unbalanced and names
\* an unregistered account ends at once with the unbalanced error; both leave
\* the four tables unchanged.
C26_ValidationOrder ==
    [][ \A p \in Procs, input \in TxnInputs \cup ConcurrentInputs :
          /\ ( /\ input.business_event_type # << >>
               /\ input.description # NoneText
               /\ Len(input.entries) = 0
               /\ Post(p, {input}) )
             => /\ last' = Err("EmptyEntrySet")
                /\ pc'[p] = "idle"
                /\ store' = store
          /\ ( /\ IsUnbalancedInput(input)
               /\ HasUnknownAccount(input)
               /\ Post(p, {input}) )
             => /\ last' = Err("Unbalanced")
                /\ pc'[p] = "idle"
                /\ store' = store ]_vars

\* An input without entries has been refused by a ledger that holds accounts,
\* transactions and journal entries.
C26_Witness ==
    /\ last = Err("EmptyEntrySet")
    /\ accounts # {}
    /\ transactions # {}
    /\ journal_entries # {}


(***************************************************************************)
(* C27                                                                     *)
(***************************************************************************)
\* The amounts an entry of a pending transaction is changed to.
ChangedAmounts == 0..20

\* The calls that hold a transaction whose hash has been computed.
Hashing == { p \in Procs : local[p].txn # << >> }

ReplaceAmount(entries, i, amount) == [entries EXCEPT ![i].amount = amount]

AccountsAndPending ==
    accounts \cup { local[p].account[1] : p \in { q \in Procs : local[q].account # << >> } }

LevelFollowsParent(a) ==
    /\ a.level = 1 <=> a.parent_account_id = NoneId
    /\ a.parent_account_id # NoneId
       => \E parent \in accounts : /\ parent.account_id = a.parent_account_id
                                   /\ a.level = parent.level + 1

ParentUnregistered(def) ==
    /\ def.parent_account_code # NoneText
    /\ AccountByCode(def.parent_account_code) = {}

\* C28: every account has level 1 exactly if it has no parent, and otherwise
\* its parent is an account of the table and its level is the parent's level
\* plus one; create_account of a valid, new code whose parent code is not
\* registered ends with the parent-not-found error and leaves the tables as
\* they were.
C28_LevelsFollowParents ==
    /\ [](\A a \in AccountsAndPending : LevelFollowsParent(a))
    /\ [][ \A def \in AccountDefs :
              ( /\ AccountDefinition_validate(def) = "ok"
                /\ AccountByCode(def.account_code) = {}
                /\ ParentUnregistered(def)
                /\ CreateAccount("p1", {def}) )
              => /\ last' = Err("ParentNotFound")
                 /\ pc'["p1"] = "idle"
                 /\ local'["p1"].account = << >>
                 /\ store' = store ]_vars

\* A child account of level 2 is in the table next to its parent of level 1,
\* and a creation under the unregistered parent 2000 has just been refused.
C28_Witness ==
    /\ \E a \in accounts : \E parent \in accounts :
          /\ a.account_code = "1110"
          /\ a.level = 2
          /\ parent.account_code = "1100"
          /\ parent.level = 1
          /\ a.parent_account_id = parent.account_id
    /\ last = Err("ParentNotFound")


(***************************************************************************)
(* C29                                                                     *)
(***************************************************************************)
ReversalsOf(transaction_id) ==
    { r \in transactions : r.is_reversal /\ r.reverses_transaction_id = transaction_id }

\* C29: whatever the interleaving of concurrent reverse_transaction calls on
\* a transaction, the ledger never holds two reversal transactions of it.
C29_AtMostOneReversal ==
    \A t \in transactions : Cardinality(ReversalsOf(t.transaction_id)) <= 1


(***************************************************************************)
(* C30                                                                     *)
(***************************************************************************)
\* The call of p is a reverse_transaction that has passed its checks.
Reversing(p) ==
    \/ pc[p] \in {"rev_call", "rev_update"}
    \/ pc[p] \in {"post_entries", "post_commit"} /\ local[p].caller = "reverse"

\* C30: a reverse_transaction call that ends with an error, at whatever step,
\* leaves the ledger without a reversal transaction of the original and the
\* original POSTED; a call that succeeds leaves the reversal, marked as the
\* reversal of the original, and the original REVERSED by it.
C30_ReversalAllOrNothing ==
    [][ \A p \in Procs :
          (Reversing(p) /\ pc'[p] = "idle")
          => IF last'.kind = "ok"
             THEN /\ \E r \in transactions' :
                        /\ r.transaction_id = last'.value
                        /\ r.is_reversal
                        /\ r.reverses_transaction_id = local[p].orig
                  /\ \E o \in transactions' :
                        /\ o.transaction_id = local[p].orig
                        /\ o.status = "REVERSED"
                        /\ o.reversed_by_transaction_id = last'.value
             ELSE /\ \A r \in transactions' :
                        /\ r.reverses_transaction_id # local[p].orig
                        /\ r.transaction_id # local[p].reversal_id
                  /\ \E o \in transactions' :
                        /\ o.transaction_id = local[p].orig
                        /\ o.status = "POSTED" ]_vars


(***************************************************************************)
(* C22                                                                     *)
(***************************************************************************)
RemoveAt(seq, i) == SubSeq(seq, 1, i - 1) \o SubSeq(seq, i + 1, Len(seq))

\* The values a holder of the report may put in the place of the value of a
\* key: values of the kind the key holds, the empty list among them.
Replacements(report, key) ==
    CASE key \in {"accounts", "assets", "liabilities", "equity"} ->
             {<< >>}
             \cup { RemoveAt(report[key], i) : i \in 1..Len(report[key]) }
             \cup { [report[key] EXCEPT ![i].balance = @ + d] :
                      i \in 1..Len(report[key]), d \in {-10, 1, 10} }
             \cup { [report[key] EXCEPT ![i].balance = -@] :
                      i \in 1..Len(report[key]) }
             \cup { [report[key] EXCEPT ![i].account_code = "9999"] :
                      i \in 1..Len(report[key]) }
      [] key = "errors" ->
             {<< >>, Append(report.errors, "Transaction 0-9: Debits (0.00) != Credits (0.01)")}
             \cup { RemoveAt(report.errors, i) : i \in 1..Len(report.errors) }
      [] key = "totals" /\ "balance_check" \in DOMAIN report.totals ->
             { [report.totals EXCEPT !.balance_check = ~@] }
             \cup { [report.totals EXCEPT ![k] = [is_float |-> TRUE, value |-> v]] :
                      k \in {"total_assets", "total_liabilities", "total_equity"},
                      v \in 0..20 }
      [] key = "totals" ->
             { [report.totals EXCEPT !.is_balanced = ~@] }
             \cup { [report.totals EXCEPT !.total_debits = [is_float |-> TRUE, value |-> v]] :
                      v \in 0..20 }
             \cup { [report.totals EXCEPT !.total_credits = [is_float |-> TRUE, value |-> v]] :
                      v \in 0..20 }
      [] key = "is_valid" -> BOOLEAN
      [] key \in {"error_count", "total_transactions"} -> 0..(MaxTxns + 1)
      [] key \in {"as_of_date", "generated_at"} -> 0..(MaxClock + 1)
      [] key = "report_id" -> 1..(MaxReports + 2)
      [] key = "report_type" -> {"TRIAL_BALANCE", "INTEGRITY_VERIFICATION", "BALANCE_SHEET"}
      [] key = "report_name" ->
             {"Integrity Verification Report", "Trial Balance as of 0",
              "Trial Balance as of 1", "Balance Sheet as of 0", ""}
      [] key = "generated_by" -> {"auditor", "intruder", ""}

\* The float 0.0 and the int 0 are one value (0 == 0.0).
SameValue(key, old, new) ==
    IF key = "totals" /\ "balance_check" \in DOMAIN old
    THEN /\ old.balance_check = new.balance_check
         /\ old.total_assets.value = new.total_assets.value
         /\ old.total_liabilities.value = new.total_liabilities.value
         /\ old.total_equity.value = new.total_equity.value
    ELSE IF key = "totals"
    THEN /\ old.is_balanced = new.is_balanced
         /\ old.total_debits.value = new.total_debits.value
         /\ old.total_credits.value = new.total_credits.value
    ELSE old = new

NumberTaken(p) ==
    \E t \in transactions : t.transaction_number = local[p].txn[1].transaction_number

\* C31: no two committed transactions share a transaction number, whatever
\* the interleaving of the postings and reversals; a posting that reaches
\* its commit with a number another posting has committed ends with the
\* integrity error and leaves no transaction, entry or audit record.
C31_TransactionNumbersUnique ==
    /\ [](\A t \in transactions, u \in transactions :
             t.transaction_number = u.transaction_number => t = u)
    /\ [][ \A p \in Procs :
              (pc[p] = "post_commit" /\ pc'[p] # "post_commit" /\ NumberTaken(p))
              => /\ last' = Err("IntegrityError")
                 /\ pc'[p] = "idle"
                 /\ store' = store ]_vars

\* Of two postings that computed the same number one is committed and the
\* other has just been refused.
C31_Witness ==
    /\ last = Err("IntegrityError")
    /\ Cardinality(transactions) = 1
    /\ Cardinality({ a \in BagToSet(audit_log) : a.event_type = "TRANSACTION_POSTED" }) = 1
    /\ \A p \in Procs : pc[p] = "idle"


(***************************************************************************)
(* C32                                                                     *)
(***************************************************************************)
\* C32: a post_transaction call whose input passed the validation and whose
\* accounts are all registered is never rejected at its commit: no posting
\* that waits for its commit ends with an error, whatever other postings run
\* at the same time.
C32_ValidPostingNeverRejected ==
    [][ \A p \in Procs :
          ( /\ pc[p] = "post_commit"
            /\ local[p].caller = "none"
            /\ pc'[p] = "idle" )
          => last'.kind = "ok" ]_vars


(***************************************************************************)
(* C33                                                                     *)
(***************************************************************************)
\* The calls that are open were begun after t: the transaction a session
\* holds has a posting date later than t.
BegunAfter(t) ==
    \A p \in Procs : local[p].txn # << >> => local[p].txn[1].posting_date > t

\* C33: once the clock has passed t, the balance of every account as of t
\* is the same before and after every step of a call begun after t: no
\* later posting or reversal changes a historical balance.
C33_HistoricalBalancesStable ==
    [][ \A a \in accounts : \A t \in 0..MaxClock :
          (now > t /\ BegunAfter(t))
          => Balance(a.account_code, t, transactions', journal_entries')
               = Balance(a.account_code, t, transactions, journal_entries) ]_vars


(***************************************************************************)
(* C34                                                                     *)
(***************************************************************************)
RECURSIVE SumOfBalances(_)
SumOfBalances(accts) ==
    IF accts = {} THEN 0
    ELSE LET a == CHOOSE x \in accts : TRUE
         IN  get_account_balance(a.account_code, NoDate) + SumOfBalances(accts \ {a})

\* C34: in every state the balances of the ASSET and EXPENSE accounts add
\* up to the balances of the LIABILITY, EQUITY and REVENUE accounts.
C34_AccountingEquation ==
    SumOfBalances({ a \in accounts : a.account_type \in {"ASSET", "EXPENSE"} })
      = SumOfBalances({ a \in accounts :
                          a.account_type \in {"LIABILITY", "EQUITY", "REVENUE"} })


(***************************************************************************)
(* C35                                                                     *)
(***************************************************************************)
\* C35: in every committed state a transaction is REVERSED exactly if its
\* reversed_by is set, reversed_by then names a transaction that is marked
\* as the reversal of it, and every transaction marked as a reversal names
\* a REVERSED transaction whose reversed_by is that reversal.
C35_ReversalLinkageConsistent ==
    /\ \A t \in transactions :
          /\ t.status = "REVERSED" <=> t.reversed_by_transaction_id # NoneId
          /\ t.reversed_by_transaction_id # NoneId
             => \E r \in transactions :
                   /\ r.transaction_id = t.reversed_by_transaction_id
                   /\ r.is_reversal
                   /\ r.reverses_transaction_id = t.transaction_id
    /\ \A r \in transactions :
          r.is_reversal
          => \E t \in transactions :
                /\ t.transaction_id = r.reverses_transaction_id
                /\ t.status = "REVERSED"
                /\ t.reversed_by_transaction_id = r.transaction_id


(***************************************************************************)
(* C36                                                                     *)
(***************************************************************************)
\* C36: a report that has been exported, to JSON or to CSV, still verifies.
C36_ExportKeepsReportVerifiable ==
    last.kind = "exported" => verify_report_integrity(last.value)

(***************************************************************************)
(* C37                                                                     *)
(***************************************************************************)
\* C37: on a ledger filled by postings and reversals the trial balance
\* report says is_balanced and the balance sheet says balance_check.
C37_ReportsSayBalanced ==
    last.kind = "report"
    => /\ last.value.report_type = "TRIAL_BALANCE" => last.value.totals.is_balanced
       /\ last.value.report_type = "BALANCE_SHEET" => last.value.totals.balance_check


(***************************************************************************)
(* C38                                                                     *)
(***************************************************************************)
HasNegativeAmount(input) ==
    \E i \in 1..Len(input.entries) : input.entries[i].amount < 0

\* C38: the journal entries of every transaction carry the numbers 1..n,
\* one entry per number, in the order of the input; every entry belongs to
\* one existing transaction, refers to an existing account and has an amount
\* of at least 0; post_transaction of an input with a negative amount ends
\* with the negative-amount error and changes nothing.
C38_EntriesNumberedInInputOrder ==
    /\ [](/\ \A t \in transactions :
                { e.entry_number : e \in EntriesOf(t.transaction_id) }
                  = 1..Cardinality(EntriesOf(t.transaction_id))
          /\ \A e \in journal_entries, f \in journal_entries :
                (e.transaction_id = f.transaction_id /\ e.entry_number = f.entry_number)
                => e = f
          /\ \A e \in journal_entries :
                /\ Cardinality(TransactionById(e.transaction_id)) = 1
                /\ \E a \in accounts : /\ a.account_id = e.account_id
                                       /\ a.account_code = e.account_code
                /\ e.amount >= 0)
    /\ [][ /\ \A p \in Procs :
                (pc[p] = "post_commit" /\ pc'[p] # pc[p] /\ transactions' # transactions)
                => LET entries == local[p].input.entries
                       added == journal_entries' \ journal_entries
                   IN  /\ Cardinality(added) = Len(entries)
                       /\ \A i \in 1..Len(entries) :
                             \E e \in added :
                                /\ e.transaction_id = local[p].txn[1].transaction_id
                                /\ e.entry_number = i
                                /\ e.account_code = entries[i].account_code
                                /\ e.entry_type = entries[i].entry_type
           /\ \A input \in TxnInputs :
                (HasNegativeAmount(input) /\ Post("p1", {input}))
                => /\ last' = Err("NegativeAmount")
                   /\ pc'["p1"] = "idle"
                   /\ store' = store ]_vars

\* A transaction of three entries is committed, and an input with a negative
\* amount has just been refused.
C38_Witness ==
    /\ \E t \in transactions : Cardinality(EntriesOf(t.transaction_id)) = 3
    /\ last = Err("NegativeAmount")


(***************************************************************************)
(* C39                                                                     *)
(***************************************************************************)
AuditRecords(event_type) == { a \in BagToSet(audit_log) : a.event_type = event_type }

AccountCreatedRecord(account_id) ==
    _log_audit("ACCOUNT_CREATED", "INFO", "CREATE_ACCOUNT", NoneId, account_id, 0)

\* C39: a successful create_account appends exactly one ACCOUNT_CREATED
\* record and a failed one appends none; a successful posting appends
\* exactly one TRANSACTION_POSTED record that names the new transaction; in
\* every committed state the TRANSACTION_POSTED records and the persisted
\* transactions correspond one to one.
C39_OneAuditRecordPerWrite ==
    /\ [](/\ \A a \in AuditRecords("TRANSACTION_POSTED") :
                /\ CopiesIn(a, audit_log) = 1
                /\ Cardinality(TransactionById(a.transaction_id)) = 1
          /\ \A t \in transactions :
                Cardinality({ a \in AuditRecords("TRANSACTION_POSTED") :
                                a.transaction_id = t.transaction_id }) = 1
          /\ Cardinality(AuditRecords("ACCOUNT_CREATED")) = Cardinality(accounts))
    /\ [][ \A p \in Procs :
              /\ (pc[p] = "create_commit" /\ pc'[p] = "idle")
                 => IF last'.kind = "ok"
                    THEN /\ audit_log' = audit_log (+) SetToBag({AccountCreatedRecord(last'.value)})
                         /\ \E a \in accounts' \ accounts : a.account_id = last'.value
                    ELSE audit_log' = audit_log /\ accounts' = accounts
              /\ (CreateAccount(p, ConcurrentAccountDefs) /\ pc'[p] = "idle")
                 => audit_log' = audit_log /\ accounts' = accounts
              /\ (pc[p] = "post_commit" /\ pc'[p] # pc[p] /\ transactions' # transactions)
                 => /\ audit_log' (-) audit_log
                         = SetToBag({ a \in AuditRecords("TRANSACTION_POSTED")' :
                                        a.transaction_id = local[p].txn[1].transaction_id })
                    /\ BagCardinality(audit_log') = BagCardinality(audit_log) + 1 ]_vars

\* Two accounts and a transaction are persisted, and a create_account call
\* on a code that exists has just failed.
C39_Witness ==
    /\ Cardinality(accounts) = 2
    /\ transactions # {}
    /\ last.kind \in {"DuplicateAccount", "IntegrityError"}
    /\ Cardinality(AuditRecords("ACCOUNT_CREATED")) = 2

====
